---------------------------- MODULE Spec2Model ----------------------------
(***************************************************************************)
(* A model of libzsync-go: the zsync delta engine (scanner), the chunk     *)
(* planner (chunksmapper), the HTTP range source (sources) and the         *)
(* assembler (ZSync.Sync).                                                 *)
(*                                                                         *)
(* Files are sequences of bytes; a byte offset o of the code is position   *)
(* o + 1 of the sequence.  A ChunkInfo is a record                         *)
(* [Size, SourceOffset, TargetOffset] (its Source field is always nil).    *)
(***************************************************************************)
EXTENDS Integers, Sequences, FiniteSets, TLC

(***************************************************************************)
(* Bounds of the model.                                                    *)
(***************************************************************************)
MaxBlockSize == 2
MaxRemoteSize == 3
MaxLocalSize == 3
MaxCPU == 2
\* The mapper on its own (SpecMapper): remote sizes, source offsets, small minGaps.
MaxTargetSize == 5
MaxSourceOffset == 1
MaxGap == 2
\* OptimizeChunks on its own (SpecOptimize): chunk lists inside [0, MaxListEnd).
MaxListEnd == 6
\* Sync under fair scheduling (SpecFair): block sizes, file sizes, NumCPU.
MaxFairBlockSize == 1
MaxFairSize == 2
MaxFairCPU == 2
\* The range source on its own (SpecSource): the longest Read or Request, the
\* longest file, and the most bytes the cache is let to hold.
MaxReadLen == 2
MaxSourceSize == 3
MaxCacheLen == 3
\* The rolling checksum on its own (SpecRolling): the longest window, the
\* longest pattern the file repeats, and the number of single-byte slides.
MaxWindow == 23
MaxPattern == 2
MaxSlides == 3

\* Sync passes zsync.BlockSize*64 as minGap.
MinGapBlocks == 64
\* io.Copy's buffer: the longest Read that io.CopyN asks of its source.
CopyBufSize == 32768

\* The values of a byte: the zero byte (the padding) and another one.
Byte == {0, 1}

\* The byte values of the files of SpecRolling: the sum b of a window of 23
\* bytes that alternate 255 and 220 is 65760 or 65340, so that it steps over
\* 2^16 back and forth as the window slides.
RollBytes == {0, 220, 255}

VARIABLES
    zsync,          \* the ZSync object: [BlockSize, RemoteFileSize, ChecksumsIndex]
    remote,         \* the bytes of the remote file (what the server holds)
    localFile,      \* the bytes of the local file at filePath
    numCPU,         \* runtime.NumCPU()
    pc,             \* where Sync is
    workers,        \* the scan goroutines, one record each
    wg,             \* waitGroup's counter
    chanClosed,     \* whether chunkChannel has been closed
    chunksMap,      \* chunkMapper.chunksMap: TargetOffset -> ChunkInfo
    output,         \* the output sink: offset -> byte, for the offsets written
    missingChunks,  \* Sync's missingChunks (after OptimizeChunks)
    fetchIdx,       \* index of the next element of missingChunks
    h,              \* missingChunksSource, the HttpFileSource
    minGap,         \* the minGap handed to OptimizeChunks
    history         \* what has happened so far (not program state)

vars == <<zsync, remote, localFile, numCPU, pc, workers, wg, chanClosed,
          chunksMap, output, missingChunks, fetchIdx, h, minGap, history>>

(***************************************************************************)
(* Helpers on sequences and integers.                                      *)
(***************************************************************************)
Min(a, b) == IF a < b THEN a ELSE b

Max(a, b) == IF a > b THEN a ELSE b

Zeros(n) == [i \in 1..n |-> 0]

\* The bytes [from, to) of file f, cut at the end of the file.
Slice(f, from, to) ==
    LET hi == Min(to, Len(f))
    IN  IF from >= hi THEN <<>> ELSE [i \in 1..(hi - from) |-> f[from + i]]

RECURSIVE SeqsUpTo(_, _)
SeqsUpTo(S, n) ==
    IF n = 0 THEN {<<>>}
    ELSE LET shorter == SeqsUpTo(S, n - 1)
         IN  shorter \cup {Append(s, x) : s \in {t \in shorter : Len(t) = n - 1}, x \in S}

Range(s) == {s[i] : i \in DOMAIN s}

(***************************************************************************)
(* chunks.ChunkInfo and the chunks mapper (chunksmapper.go).               *)
(***************************************************************************)
ChunkInfo(size, sourceOffset, targetOffset) ==
    [Size |-> size, SourceOffset |-> sourceOffset, TargetOffset |-> targetOffset]

\* NewFileChunksMapper: an empty map (a function with an empty domain).
NewFileChunksMapper == <<>>

\* A mutation of Add: an offset already mapped keeps its first chunk.
AddKeepFirst(map, chunk) ==
    IF chunk.TargetOffset \in DOMAIN map THEN map
    ELSE [k \in DOMAIN map \cup {chunk.TargetOffset} |->
             IF k = chunk.TargetOffset THEN chunk ELSE map[k]]

\* mapper.chunksMap[chunk.TargetOffset] = chunk
Add(map, chunk) ==
    [k \in DOMAIN map \cup {chunk.TargetOffset} |->
        IF k = chunk.TargetOffset THEN chunk ELSE map[k]]

\* sort.SliceStable by TargetOffset of a collection of chunks.
RECURSIVE SortByTargetOffset(_)
SortByTargetOffset(S) ==
    IF S = {} THEN <<>>
    ELSE LET c == CHOOSE x \in S : \A y \in S : x.TargetOffset <= y.TargetOffset
         IN  <<c>> \o SortByTargetOffset(S \ {c})

\* The map's values in map order (any order), then sorted.
GetMappedChunks(map) == SortByTargetOffset({map[k] : k \in DOMAIN map})

\* A mutation of the loop of GetMissingChunks: the gap after the last mapped
\* chunk is forgotten.
RECURSIVE MissingFromNoTail(_, _, _, _)
MissingFromNoTail(chunkList, i, pastChunkEnd, fileSize) ==
    IF i > Len(chunkList) THEN <<>>
    ELSE LET c == chunkList[i]
             gap == IF pastChunkEnd # c.TargetOffset
                    THEN <<ChunkInfo(c.TargetOffset - pastChunkEnd, pastChunkEnd, pastChunkEnd)>>
                    ELSE <<>>
         IN  gap \o MissingFromNoTail(chunkList, i + 1, c.TargetOffset + c.Size, fileSize)

\* A mutation of the loop of GetMissingChunks: the size of a gap before a mapped
\* chunk is c.TargetOffset, pastChunkEnd is not subtracted.
RECURSIVE MissingFromGapSize(_, _, _, _)
MissingFromGapSize(chunkList, i, pastChunkEnd, fileSize) ==
    IF i > Len(chunkList)
    THEN IF pastChunkEnd # fileSize
         THEN <<ChunkInfo(fileSize - pastChunkEnd, pastChunkEnd, pastChunkEnd)>>
         ELSE <<>>
    ELSE LET c == chunkList[i]
             gap == IF pastChunkEnd # c.TargetOffset
                    THEN <<ChunkInfo(c.TargetOffset, pastChunkEnd, pastChunkEnd)>>
                    ELSE <<>>
         IN  gap \o MissingFromGapSize(chunkList, i + 1, c.TargetOffset + c.Size, fileSize)

\* The loop of GetMissingChunks from element i on.
RECURSIVE MissingFrom(_, _, _, _)
MissingFrom(chunkList, i, pastChunkEnd, fileSize) ==
    IF i > Len(chunkList)
    THEN IF pastChunkEnd # fileSize
         THEN <<ChunkInfo(fileSize - pastChunkEnd, pastChunkEnd, pastChunkEnd)>>
         ELSE <<>>
    ELSE LET c == chunkList[i]
             gap == IF pastChunkEnd # c.TargetOffset
                    THEN <<ChunkInfo(c.TargetOffset - pastChunkEnd, pastChunkEnd, pastChunkEnd)>>
                    ELSE <<>>
         IN  gap \o MissingFrom(chunkList, i + 1, c.TargetOffset + c.Size, fileSize)

GetMissingChunks(map, fileSize) == MissingFrom(GetMappedChunks(map), 1, 0, fileSize)

\* A mutation of the inner loop of OptimizeChunks: end is not moved to the end
\* of a swallowed chunk.
RECURSIVE OptimizeInnerStaleEnd(_, _, _, _, _, _)
OptimizeInnerStaleEnd(chunkList, gap, n, chunk, end, skipList) ==
    IF n > Len(chunkList) THEN [chunk |-> chunk, skipList |-> skipList]
    ELSE IF n \in skipList THEN OptimizeInnerStaleEnd(chunkList, gap, n + 1, chunk, end, skipList)
    ELSE LET nextChunk == chunkList[n]
             nextEnd == nextChunk.SourceOffset + nextChunk.Size
         IN  IF end + gap > nextChunk.SourceOffset
             THEN OptimizeInnerStaleEnd(chunkList, gap, n + 1,
                                        [chunk EXCEPT !.Size = nextEnd - chunk.SourceOffset],
                                        end, skipList \cup {n})
             ELSE OptimizeInnerStaleEnd(chunkList, gap, n + 1, chunk, end, skipList)

\* A mutation of the inner loop of OptimizeChunks: a swallowed chunk is not put
\* on the skip list.
RECURSIVE OptimizeInnerNoSkip(_, _, _, _, _, _)
OptimizeInnerNoSkip(chunkList, gap, n, chunk, end, skipList) ==
    IF n > Len(chunkList) THEN [chunk |-> chunk, skipList |-> skipList]
    ELSE LET nextChunk == chunkList[n]
             nextEnd == nextChunk.SourceOffset + nextChunk.Size
         IN  IF end + gap > nextChunk.SourceOffset
             THEN OptimizeInnerNoSkip(chunkList, gap, n + 1,
                                      [chunk EXCEPT !.Size = nextEnd - chunk.SourceOffset],
                                      nextEnd, skipList)
             ELSE OptimizeInnerNoSkip(chunkList, gap, n + 1, chunk, end, skipList)

\* A mutation of the inner loop of OptimizeChunks: a chunk whose distance is
\* exactly the minimal gap is swallowed too.
RECURSIVE OptimizeInnerMergeEqual(_, _, _, _, _, _)
OptimizeInnerMergeEqual(chunkList, gap, n, chunk, end, skipList) ==
    IF n > Len(chunkList) THEN [chunk |-> chunk, skipList |-> skipList]
    ELSE IF n \in skipList
    THEN OptimizeInnerMergeEqual(chunkList, gap, n + 1, chunk, end, skipList)
    ELSE LET nextChunk == chunkList[n]
             nextEnd == nextChunk.SourceOffset + nextChunk.Size
         IN  IF end + gap >= nextChunk.SourceOffset
             THEN OptimizeInnerMergeEqual(chunkList, gap, n + 1,
                                          [chunk EXCEPT !.Size = nextEnd - chunk.SourceOffset],
                                          nextEnd, skipList \cup {n})
             ELSE OptimizeInnerMergeEqual(chunkList, gap, n + 1, chunk, end, skipList)

\* The inner loop of OptimizeChunks (for n := i; ...): the chunk grown over the
\* chunks it swallows, and the skip list.
RECURSIVE OptimizeInner(_, _, _, _, _, _)
OptimizeInner(chunkList, gap, n, chunk, end, skipList) ==
    IF n > Len(chunkList) THEN [chunk |-> chunk, skipList |-> skipList]
    ELSE IF n \in skipList THEN OptimizeInner(chunkList, gap, n + 1, chunk, end, skipList)
    ELSE LET nextChunk == chunkList[n]
             nextEnd == nextChunk.SourceOffset + nextChunk.Size
         IN  IF end + gap > nextChunk.SourceOffset
             THEN OptimizeInner(chunkList, gap, n + 1,
                                [chunk EXCEPT !.Size = nextEnd - chunk.SourceOffset],
                                nextEnd, skipList \cup {n})
             ELSE OptimizeInner(chunkList, gap, n + 1, chunk, end, skipList)

\* The outer loop of OptimizeChunks (for i := 0; ...).
RECURSIVE OptimizeOuter(_, _, _, _)
OptimizeOuter(chunkList, gap, i, skipList) ==
    IF i > Len(chunkList) THEN <<>>
    ELSE IF i \in skipList THEN OptimizeOuter(chunkList, gap, i + 1, skipList)
    ELSE LET chunk == chunkList[i]
             r == OptimizeInner(chunkList, gap, i, chunk,
                                chunk.SourceOffset + chunk.Size, skipList)
         IN  <<r.chunk>> \o OptimizeOuter(chunkList, gap, i + 1, r.skipList)

OptimizeChunks(chunkList, gap) == OptimizeOuter(chunkList, gap, 1, {})


(***************************************************************************)
(* The rolling window buffer (package hasedbuffer) and the checksum index  *)
(* (package index).  Their sources are not part of src/; they are modelled *)
(* from the specification (4.A, 4.B) and from the comments of WriteChunk   *)
(* and createChunks: a block-sized read that meets the end of the file     *)
(* leaves a zero-filled window.                                            *)
(***************************************************************************)
Mod16 == 65536

\* a = sum of w[i] mod 2^16 for a window w.
RECURSIVE SumA(_)
SumA(w) == IF w = <<>> THEN 0 ELSE (Head(w) + SumA(Tail(w))) % Mod16

\* b = sum of (L - i) * w[i] mod 2^16, i counted from 0.
RECURSIVE SumB(_)
SumB(w) == IF w = <<>> THEN 0 ELSE (Len(w) * Head(w) + SumB(Tail(w))) % Mod16

\* The weak checksum of a window computed from scratch: (b << 16) | a, written
\* as the pair <<b, a>> of its 16-bit halves (the packed 32-bit value is beyond
\* the integers TLC computes with; two packed values are equal exactly when
\* their halves are).
WeakOf(w) == <<SumB(w), SumA(w)>>

\* hasedbuffer.NewHashedBuffer: an empty window.
NewHashedBuffer == [win |-> <<>>, a |-> 0, b |-> 0]

\* buf.ReadFull(input) with the file position at pos: the window is replaced by
\* the next BlockSize bytes, zero-filled when the file ends before.
ReadFull(bs, file, pos) ==
    LET got == Slice(file, pos, pos + bs)
        win == got \o Zeros(bs - Len(got))
    IN  IF got = <<>>
        THEN [err |-> "EOF", buf |-> NewHashedBuffer, pos |-> pos]
        ELSE [err |-> "nil", buf |-> [win |-> win, a |-> SumA(win), b |-> SumB(win)],
              pos |-> pos + Len(got)]

\* buf.ReadByte(input): push_byte, the weak checksum updated from the byte that
\* leaves (x_out) and the byte that enters (x_in).
ReadByte(bs, buf, file, pos) ==
    IF pos >= Len(file) THEN [err |-> "EOF", buf |-> buf, pos |-> pos]
    ELSE LET xin == file[pos + 1]
             full == Len(buf.win) = bs
             xout == IF full THEN Head(buf.win) ELSE 0
             a2 == (buf.a - xout + xin) % Mod16
             b2 == (buf.b - bs * xout + a2) % Mod16
         IN  [err |-> "nil",
              buf |-> [win |-> (IF full THEN Tail(buf.win) ELSE buf.win) \o <<xin>>,
                       a |-> a2, b |-> b2],
              pos |-> pos + 1]

\* buf.RollingSum(): (b << 16) | a, as the pair of its halves.
RollingSum(buf) == <<buf.b, buf.a>>

\* buf.CheckSum(): the strong digest of the window, modelled without collisions
\* as the window itself.
CheckSum(buf) == buf.win

\* The number of blocks of the remote file, one checksum entry each.
NumBlocks(bs, size) == (size + bs - 1) \div bs

\* Block k of the remote file as the control file summarises it: zero-padded on
\* the right to a whole block.
PaddedBlock(bs, file, k) ==
    LET s == Slice(file, k * bs, (k + 1) * bs) IN s \o Zeros(bs - Len(s))

\* The checksum index of the control file of a remote file: for each block, by
\* block index (block k is entry k + 1), its weak checksum and its strong digest.
NewChecksumIndex(bs, file) ==
    [n \in 1..NumBlocks(bs, Len(file)) |->
        [weak |-> WeakOf(PaddedBlock(bs, file, n - 1)), strong |-> PaddedBlock(bs, file, n - 1)]]

\* The blocks from entry n on whose weak checksum is weak, by ascending index.
RECURSIVE WeakFrom(_, _, _)
WeakFrom(index, weak, n) ==
    IF n > Len(index) THEN <<>>
    ELSE (IF index[n].weak = weak THEN <<[TargetOffset |-> n - 1]>> ELSE <<>>)
             \o WeakFrom(index, weak, n + 1)

\* ChecksumsIndex.FindWeakChecksum2: the blocks with that weak checksum, by
\* ascending block index (<<>> stands for nil).
FindWeakChecksum2(index, weak) == WeakFrom(index, weak, 1)

\* The candidates from the j-th on whose strong digest is strong.
RECURSIVE StrongFrom(_, _, _, _)
StrongFrom(index, strong, weakMatches, j) ==
    IF j > Len(weakMatches) THEN <<>>
    ELSE (IF index[weakMatches[j].TargetOffset + 1].strong = strong
          THEN <<[ChunkOffset |-> weakMatches[j].TargetOffset]>> ELSE <<>>)
             \o StrongFrom(index, strong, weakMatches, j + 1)

\* ChecksumsIndex.FindStrongChecksum2: the candidates with that strong digest;
\* each is a ChunkChecksum, of which the scanner reads ChunkOffset.
FindStrongChecksum2(index, strong, weakMatches) == StrongFrom(index, strong, weakMatches, 1)

(***************************************************************************)
(* The scanner (ZSync.SearchReusableChunks and its workers).               *)
(***************************************************************************)
\* nChunks of SearchReusableChunks: inputSize / BlockSize, rounded up.
NChunks(bs, inputSize) ==
    LET q == inputSize \div bs IN IF q * bs < inputSize THEN q + 1 ELSE q

\* nWorkers: NumCPU, at most nChunks.
NWorkers(bs, inputSize, ncpu) ==
    LET n == NChunks(bs, inputSize) IN IF ncpu > n THEN n ELSE ncpu

\* nChunksPerWorker (nWorkers is not 0 where this is used).
NChunksPerWorker(bs, inputSize, ncpu) ==
    NChunks(bs, inputSize) \div NWorkers(bs, inputSize, ncpu)

\* begin and end of worker i (i counted from 0).
WorkerBegin(bs, inputSize, ncpu, i) == (NChunksPerWorker(bs, inputSize, ncpu) * bs) * i

WorkerEnd(bs, inputSize, ncpu, i) ==
    LET end == WorkerBegin(bs, inputSize, ncpu, i) + NChunksPerWorker(bs, inputSize, ncpu) * bs
    IN  IF end > inputSize THEN inputSize ELSE end

\* consumeBytes: a whole block through ReadFull, else byte by byte.
RECURSIVE ConsumeLoop(_, _, _, _, _)
ConsumeLoop(bs, buf, file, pos, n) ==
    IF n = 0 THEN [err |-> "nil", buf |-> buf, pos |-> pos]
    ELSE LET r == ReadByte(bs, buf, file, pos)
         IN  IF r.err # "nil" THEN r ELSE ConsumeLoop(bs, r.buf, file, r.pos, n - 1)

\* A mutation of consumeBytes: every call reads a whole block.
consumeBytesWholeBlocks(bs, buf, file, pos, nBytes) == ReadFull(bs, file, pos)

consumeBytes(bs, buf, file, pos, nBytes) ==
    IF nBytes = bs THEN ReadFull(bs, file, pos) ELSE ConsumeLoop(bs, buf, file, pos, nBytes)

\* A mutation of createChunks: only the first matched block is emitted.
createChunksFirstOnly(bs, remoteSize, strongMatches, offset) ==
    LET t == strongMatches[1].ChunkOffset * bs
    IN  <<ChunkInfo(IF t + bs > remoteSize THEN remoteSize - t ELSE bs, offset, t)>>

\* A mutation of createChunks: a chunk that reaches past the remote file is not
\* chopped.
createChunksNoChop(bs, remoteSize, strongMatches, offset) ==
    [j \in 1..Len(strongMatches) |->
        ChunkInfo(bs, offset, strongMatches[j].ChunkOffset * bs)]

\* createChunks: one ChunkInfo per matched block, in order; a chunk that reaches
\* past the remote file is chopped.
createChunks(bs, remoteSize, strongMatches, offset) ==
    [j \in 1..Len(strongMatches) |->
        LET t == strongMatches[j].ChunkOffset * bs
        IN  ChunkInfo(IF t + bs > remoteSize THEN remoteSize - t ELSE bs, offset, t)]

(***************************************************************************)
(* The range source (sources.HttpFileSource).  A response of the server is *)
(* one of Responses; "ok" is a 206 with the true bytes of the range.       *)
(***************************************************************************)
Responses == {"ok", "short", "404", "200", "gzip", "transport"}

\* The body a 206 response carries for [range_start, range_end).
ResponseBody(file, resp, range_start, range_end) ==
    LET true == Slice(file, range_start, range_end)
    IN  IF resp = "short" /\ true # <<>> THEN SubSeq(true, 1, Len(true) - 1) ELSE true

\* A mutation of doRangeRequest: status 404 is not told apart from the other
\* statuses that are not 206.
doRangeRequestNo404(resp) ==
    CASE resp = "transport" -> "Error executing request"
      [] resp = "404" -> "ranged request not supported"
      [] resp = "200" -> "ranged request not supported"
      [] resp = "gzip" -> "response from server was GZiped"
      [] OTHER -> "nil"

\* doRangeRequest: the error it returns ("nil" for none).
doRangeRequest(resp) ==
    CASE resp = "transport" -> "Error executing request"
      [] resp = "404" -> "URL not found"
      [] resp = "200" -> "ranged request not supported"
      [] resp = "gzip" -> "response from server was GZiped"
      [] OTHER -> "nil"

\* HttpFileSource{URL, Size}; gets is not a field of the struct: it lists the
\* GETs the client has sent, each the inclusive byte range of its Range header.
NewHttpFileSource(size) ==
    [Offset |-> 0, Size |-> size, cacheBegin |-> 0, cacheEnd |-> 0, readerCache |-> <<>>,
     gets |-> <<>>]

\* Seek: only the logical offset moves.
Seek(src, offset, whence) ==
    CASE whence = 0 -> [h |-> [src EXCEPT !.Offset = offset], err |-> "nil"]
      [] whence = 1 -> [h |-> [src EXCEPT !.Offset = src.Offset + offset], err |-> "nil"]
      [] whence = 2 -> [h |-> [src EXCEPT !.Offset = src.Size + offset], err |-> "nil"]
      [] OTHER -> [h |-> src, err |-> "Unknown whence value"]

\* A mutation of RequestDone: the length of the body is not compared with size.
RequestDoneNoSizeCheck(h1, size, body, err) ==
    IF err # "nil" THEN [h |-> h1, err |-> err]
    ELSE [h |-> [h1 EXCEPT !.readerCache = @ \o body], err |-> "nil"]

\* The end of Request: with the cache bounds set (h1), the body is appended to
\* the cache (bytes.Buffer.ReadFrom) and then its length is compared with size.
RequestDone(h1, size, body, err) ==
    IF err # "nil" THEN [h |-> h1, err |-> err]
    ELSE IF Len(body) # size
    THEN [h |-> [h1 EXCEPT !.readerCache = @ \o body], err |-> "Range size mismatch"]
    ELSE [h |-> [h1 EXCEPT !.readerCache = @ \o body], err |-> "nil"]

\* Request: cacheBegin and cacheEnd are set, then one doRangeRequest is made
\* (Range: bytes=cacheBegin-(cacheEnd - 1)).
Request(src, size, file, resp) ==
    RequestDone([src EXCEPT !.cacheBegin = src.Offset, !.cacheEnd = src.Offset + size,
                            !.gets = Append(@, <<src.Offset, src.Offset + size - 1>>)],
                size,
                ResponseBody(file, resp, src.Offset, src.Offset + size),
                doRangeRequest(resp))

\* The end of Read: n, err = h.readerCache.Read(b); h.Seek(n, 1).
ReadTake(hh, got) ==
    [h |-> [hh EXCEPT !.readerCache = SubSeq(@, got + 1, Len(@)), !.Offset = @ + got],
     data |-> SubSeq(hh.readerCache, 1, got),
     err |-> "nil"]

\* Read once the cache is filled (rq is what Request returned, if it was called).
ReadCache(rq, n) ==
    IF rq.err # "nil" THEN [h |-> rq.h, data |-> <<>>, err |-> rq.err]
    ELSE IF Len(rq.h.readerCache) = 0 /\ n > 0 THEN [h |-> rq.h, data |-> <<>>, err |-> "EOF"]
    ELSE ReadTake(rq.h, Min(n, Len(rq.h.readerCache)))

\* Read after the cache was reset or kept: an empty cache is filled by a Request.
ReadFill(h1, n, file, resp) ==
    ReadCache(IF Len(h1.readerCache) = 0 THEN Request(h1, n, file, resp)
              ELSE [h |-> h1, err |-> "nil"], n)

\* Read(b) with len(b) = n: [h, data, err].
Read(src, n, file, resp) ==
    ReadFill(IF Len(src.readerCache) # 0
                /\ (src.Offset < src.cacheBegin \/ src.Offset + n > src.cacheEnd)
             THEN [src EXCEPT !.readerCache = <<>>] ELSE src,
             n, file, resp)

(***************************************************************************)
(* io.CopyN and ZSync.WriteChunk.                                          *)
(***************************************************************************)
\* io.Copy from io.LimitReader(source, n), the source an HttpFileSource; acc is
\* what has been copied so far, r what the last Read returned.
RECURSIVE CopyHttp(_, _, _, _, _, _)
RECURSIVE CopyHttpRead(_, _, _, _, _, _)
CopyHttpRead(r, n, bufSize, file, resp, acc) ==
    IF r.err # "nil" THEN [h |-> r.h, data |-> acc \o r.data, err |-> r.err]
    ELSE CopyHttp(r.h, n - Len(r.data), bufSize, file, resp, acc \o r.data)

CopyHttp(src, n, bufSize, file, resp, acc) ==
    IF n <= 0 THEN [h |-> src, data |-> acc, err |-> "EOF"]
    ELSE CopyHttpRead(Read(src, Min(bufSize, n), file, resp), n, bufSize, file, resp, acc)

\* The error of io.CopyN: io.Copy takes the reader's io.EOF for the end (no
\* error); CopyN returns nil when n bytes were written and io.EOF when fewer
\* were and Copy met no error.
CopyNErr(written, n, readErr) ==
    LET copyErr == IF readErr = "EOF" THEN "nil" ELSE readErr
    IN  IF written = n THEN "nil"
        ELSE IF written < n /\ copyErr = "nil" THEN "EOF"
        ELSE copyErr

\* What io.CopyN returns after io.Copy returned r.
CopyNResult(r, n) == [h |-> r.h, data |-> r.data, err |-> CopyNErr(Len(r.data), n, r.err)]

\* io.CopyN(target, source, n) for the range source: what was copied and the error
\* ("nil" when n bytes were copied, "EOF" when the source ended before).
CopyNHttp(src, n, file, resp) ==
    CopyNResult(CopyHttp(src, n, Max(1, Min(CopyBufSize, n)), file, resp, <<>>), n)

\* io.CopyN(target, source, n) for a file read from offset sourceOffset.
CopyNFile(file, sourceOffset, n) ==
    LET data == Slice(file, sourceOffset, sourceOffset + n)
    IN  [data |-> data, err |-> CopyNErr(Len(data), n, "EOF")]

\* target.Seek(off); target.Write(bytes)
WriteAt(out, off, bytes) ==
    [p \in DOMAIN out \cup (off..(off + Len(bytes) - 1)) |->
        IF p >= off /\ p < off + Len(bytes) THEN bytes[p - off + 1] ELSE out[p]]

\* A mutation of the tail of WriteChunk: a short source is not padded with zeros.
WriteCopiedNoPad(out, chunk, copied) == WriteAt(out, chunk.TargetOffset, copied.data)

\* The tail of WriteChunk: the bytes copied, then Size - n zeros when the source
\* ended (io.EOF) before Size bytes.
WriteCopied(out, chunk, copied) ==
    LET n == Len(copied.data)
        zeros == IF copied.err = "EOF" /\ n < chunk.Size THEN Zeros(chunk.Size - n) ELSE <<>>
    IN  WriteAt(out, chunk.TargetOffset, copied.data \o zeros)

\* The error WriteChunk returns once the copy is done ("nil" for none).
WriteChunkErr(chunk, copied) ==
    IF copied.err = "nil" \/ (copied.err = "EOF" /\ Len(copied.data) < chunk.Size)
    THEN "nil" ELSE "unable to copy bytes"

(***************************************************************************)
(* ZSync.Sync with its scan workers: the specification Spec.               *)
(***************************************************************************)
BlockSize == zsync.BlockSize

RemoteFileSize == zsync.RemoteFileSize

NoHistory == [err |-> "", requests |-> <<>>]

\* NewZSyncFromControl for a control that describes remoteBytes faithfully.
InitSync ==
    /\ \E bs \in 1..MaxBlockSize, r \in SeqsUpTo(Byte, MaxRemoteSize) :
           /\ zsync = [BlockSize |-> bs, RemoteFileSize |-> Len(r),
                       ChecksumsIndex |-> NewChecksumIndex(bs, r)]
           /\ remote = r
    /\ localFile \in SeqsUpTo(Byte, MaxLocalSize)
    /\ numCPU \in 1..MaxCPU
    /\ pc = "start"
    /\ workers = <<>>
    /\ wg = 0
    /\ chanClosed = FALSE
    /\ chunksMap = NewFileChunksMapper
    /\ output = <<>>
    /\ missingChunks = <<>>
    /\ fetchIdx = 1
    /\ h = NewHttpFileSource(0)
    /\ minGap = 0
    /\ history = NoHistory

\* The goroutine SearchReusableChunks starts as worker i (i counted from 1).
NewWorker(i) ==
    [pc |-> "open",
     begin |-> WorkerBegin(BlockSize, Len(localFile), numCPU, i - 1),
     end |-> WorkerEnd(BlockSize, Len(localFile), numCPU, i - 1),
     off |-> WorkerBegin(BlockSize, Len(localFile), numCPU, i - 1),
     nextStep |-> BlockSize,
     pos |-> 0,
     buf |-> NewHashedBuffer,
     pending |-> <<>>,
     sent |-> <<>>,
     err |-> "nil"]

\* Sync up to its drain loop: SearchReusableChunks (getFileSize, the workers
\* started, or the division by nWorkers = 0), then os.Open(filePath).
SyncStart ==
    /\ pc = "start"
    /\ UNCHANGED <<zsync, remote, localFile, numCPU, chanClosed, chunksMap, output,
                   missingChunks, fetchIdx, h, minGap>>
    /\ \/ \* getFileSize fails: Sync returns the error
          /\ pc' = "err"
          /\ history' = [history EXCEPT !.err = "stat"]
          /\ UNCHANGED <<workers, wg>>
       \/ \* nWorkers = 0: nChunks / nWorkers panics (integer divide by zero)
          /\ NWorkers(BlockSize, Len(localFile), numCPU) = 0
          /\ pc' = "panic"
          /\ history' = [history EXCEPT !.err = "integer divide by zero"]
          /\ UNCHANGED <<workers, wg>>
       \/ \* the workers are started; os.Open succeeds or fails
          /\ NWorkers(BlockSize, Len(localFile), numCPU) # 0
          /\ workers' = [i \in 1..NWorkers(BlockSize, Len(localFile), numCPU) |-> NewWorker(i)]
          /\ wg' = NWorkers(BlockSize, Len(localFile), numCPU)
          /\ \/ pc' = "drain" /\ UNCHANGED history
             \/ pc' = "err" /\ history' = [history EXCEPT !.err = "open"]

\* wg.Done() of worker i, deferred to its return.
WorkerReturn(i) ==
    /\ workers' = [workers EXCEPT ![i].pc = "done"]
    /\ wg' = wg - 1

\* A mutation of WorkerOpen: a worker that fails to open the file returns
\* without wg.Done().
WorkerOpenNoDone(i) ==
    /\ workers[i].pc = "open"
    /\ UNCHANGED <<zsync, remote, localFile, numCPU, pc, chanClosed, chunksMap, output,
                   missingChunks, fetchIdx, h, minGap, history>>
    /\ \/ /\ workers' = [workers EXCEPT ![i].pc = "scan", ![i].pos = workers[i].begin]
          /\ UNCHANGED wg
       \/ /\ workers' = [workers EXCEPT ![i].pc = "done", ![i].err = "open"]
          /\ UNCHANGED wg

\* searchReusableChunksAsync up to its loop: os.Open and Seek(begin).
WorkerOpen(i) ==
    /\ workers[i].pc = "open"
    /\ UNCHANGED <<zsync, remote, localFile, numCPU, pc, chanClosed, chunksMap, output,
                   missingChunks, fetchIdx, h, minGap, history>>
    /\ \/ /\ workers' = [workers EXCEPT ![i].pc = "scan", ![i].pos = workers[i].begin]
          /\ UNCHANGED wg
       \/ \* os.Open or Seek fails: the worker returns
          /\ workers' = [workers EXCEPT ![i].pc = "done", ![i].err = "open"]
          /\ wg' = wg - 1

\* One iteration of the loop of searchReusableChunksAsync, up to the first send.
\* (r, weakMatches and strongMatches are bound by \E over a one-element set, so
\* that each is computed once.)
WorkerScan(i) ==
    /\ workers[i].pc = "scan"
    /\ UNCHANGED <<zsync, remote, localFile, numCPU, pc, chanClosed, chunksMap, output,
                   missingChunks, fetchIdx, h, minGap, history>>
    /\ \E r \in {consumeBytes(BlockSize, workers[i].buf, localFile, workers[i].pos,
                              workers[i].nextStep)} :
       \E weakMatches \in {FindWeakChecksum2(zsync.ChecksumsIndex, RollingSum(r.buf))} :
       \E strongMatches \in {IF weakMatches = <<>> THEN <<>>
                             ELSE FindStrongChecksum2(zsync.ChecksumsIndex, CheckSum(r.buf),
                                                      weakMatches)} :
           IF workers[i].off >= workers[i].end \/ r.err # "nil"
           THEN WorkerReturn(i)
           ELSE /\ UNCHANGED wg
                /\ IF strongMatches # <<>>
                   THEN workers' = [workers EXCEPT
                            ![i].pc = "send", ![i].buf = r.buf, ![i].pos = r.pos,
                            ![i].nextStep = BlockSize, ![i].sent = <<>>,
                            ![i].pending = createChunks(BlockSize, RemoteFileSize,
                                                        strongMatches, workers[i].off)]
                   ELSE workers' = [workers EXCEPT
                            ![i].buf = r.buf, ![i].pos = r.pos, ![i].nextStep = 1,
                            ![i].sent = <<>>, ![i].off = workers[i].off + 1]

\* Worker i after its send of Head(pending) was received.
Sent(i) ==
    LET w == workers[i]
    IN  IF Len(w.pending) > 1
        THEN [workers EXCEPT ![i].pending = Tail(w.pending),
                             ![i].sent = Append(w.sent, Head(w.pending))]
        ELSE [workers EXCEPT ![i].pending = <<>>,
                             ![i].sent = Append(w.sent, Head(w.pending)),
                             ![i].pc = "scan", ![i].off = w.off + w.nextStep]

\* chunksChan <- newChunk of worker i meets the receive of Sync's drain loop;
\* Sync writes the chunk (WriteChunk from the local file) and adds it to the mapper.
SyncReceive(i) ==
    LET chunk == Head(workers[i].pending)
        copied == CopyNFile(localFile, chunk.SourceOffset, chunk.Size)
    IN  /\ pc = "drain"
        /\ ~chanClosed
        /\ workers[i].pc = "send"
        /\ workers' = Sent(i)
        /\ UNCHANGED <<zsync, remote, localFile, numCPU, wg, chanClosed, missingChunks,
                       fetchIdx, h, minGap>>
        /\ \/ /\ WriteChunkErr(chunk, copied) = "nil"
              /\ output' = WriteCopied(output, chunk, copied)
              /\ chunksMap' = Add(chunksMap, chunk)
              /\ UNCHANGED <<pc, history>>
           \/ \* a seek or write on the output, or a read of the local file, fails
              /\ pc' = "err"
              /\ history' = [history EXCEPT !.err = "write"]
              /\ UNCHANGED <<output, chunksMap>>

\* A mutation of CloseChannel: the goroutine does not wait for every worker, it
\* closes the channel once one worker has returned.
CloseChannelEarly ==
    /\ workers # <<>>
    /\ wg < Len(workers)
    /\ ~chanClosed
    /\ chanClosed' = TRUE
    /\ UNCHANGED <<zsync, remote, localFile, numCPU, pc, workers, wg, chunksMap, output,
                   missingChunks, fetchIdx, h, minGap, history>>

\* The goroutine of SearchReusableChunks: waitGroup.Wait(); close(chunkChannel).
CloseChannel ==
    /\ workers # <<>>
    /\ wg = 0
    /\ ~chanClosed
    /\ chanClosed' = TRUE
    /\ UNCHANGED <<zsync, remote, localFile, numCPU, pc, workers, wg, chunksMap, output,
                   missingChunks, fetchIdx, h, minGap, history>>

\* The drain loop ends on the closed channel; Sync plans the missing chunks.
SyncPlan ==
    /\ pc = "drain"
    /\ chanClosed
    /\ pc' = "fetch"
    /\ h' = NewHttpFileSource(RemoteFileSize)
    /\ minGap' = BlockSize * MinGapBlocks
    /\ missingChunks' = OptimizeChunks(GetMissingChunks(chunksMap, RemoteFileSize),
                                       BlockSize * MinGapBlocks)
    /\ fetchIdx' = 1
    /\ UNCHANGED <<zsync, remote, localFile, numCPU, workers, wg, chanClosed, chunksMap,
                   output, history>>

\* The end of an iteration of the loop over missingChunks: WriteChunk has
\* copied from the range source; the write to the output succeeds or fails.
FetchCopied(chunk, copied, asked) ==
    /\ h' = copied.h
    /\ \/ /\ WriteChunkErr(chunk, copied) = "nil"
          /\ output' = WriteCopied(output, chunk, copied)
          /\ fetchIdx' = fetchIdx + 1
          /\ history' = [history EXCEPT !.requests = asked]
          /\ UNCHANGED pc
       \/ /\ pc' = "err"
          /\ history' = [history EXCEPT !.err = "write", !.requests = asked]
          /\ UNCHANGED <<output, fetchIdx>>

\* A mutation of FetchRequested: when Request fails, what arrived in the cache is
\* written to the output before the error is returned.
FetchRequestedWrites(chunk, rq, resp, asked) ==
    IF rq.err # "nil"
    THEN /\ pc' = "err"
         /\ h' = rq.h
         /\ history' = [history EXCEPT !.err = rq.err, !.requests = asked]
         /\ output' = WriteAt(output, chunk.TargetOffset, rq.h.readerCache)
         /\ UNCHANGED fetchIdx
    ELSE FetchCopied(chunk,
                     CopyNHttp(Seek(rq.h, chunk.SourceOffset, 0).h, chunk.Size, remote, resp),
                     asked)

\* An iteration of the loop over missingChunks after Request returned rq: the
\* error is returned, or WriteChunk seeks the source and copies chunk.Size bytes.
FetchRequested(chunk, rq, resp, asked) ==
    IF rq.err # "nil"
    THEN /\ pc' = "err"
         /\ h' = rq.h
         /\ history' = [history EXCEPT !.err = rq.err, !.requests = asked]
         /\ UNCHANGED <<output, fetchIdx>>
    ELSE FetchCopied(chunk,
                     CopyNHttp(Seek(rq.h, chunk.SourceOffset, 0).h, chunk.Size, remote, resp),
                     asked)

\* One iteration of the loop over missingChunks: Seek, Request, WriteChunk.
SyncFetch ==
    /\ pc = "fetch"
    /\ fetchIdx <= Len(missingChunks)
    /\ UNCHANGED <<zsync, remote, localFile, numCPU, workers, wg, chanClosed, chunksMap,
                   missingChunks, minGap>>
    /\ \E resp \in Responses :
        LET chunk == missingChunks[fetchIdx]
        IN  FetchRequested(chunk,
                           Request(Seek(h, chunk.SourceOffset, 0).h, chunk.Size, remote, resp),
                           resp,
                           Append(history.requests, [chunk |-> chunk, resp |-> resp]))

\* Every missing chunk is written: Sync returns nil.
SyncReturn ==
    /\ pc = "fetch"
    /\ fetchIdx > Len(missingChunks)
    /\ pc' = "ok"
    /\ UNCHANGED <<zsync, remote, localFile, numCPU, workers, wg, chanClosed, chunksMap,
                   output, missingChunks, fetchIdx, h, minGap, history>>

Next ==
    \/ SyncStart
    \/ \E i \in DOMAIN workers : WorkerOpen(i)
    \/ \E i \in DOMAIN workers : WorkerScan(i)
    \/ \E i \in DOMAIN workers : SyncReceive(i)
    \/ CloseChannel
    \/ SyncPlan
    \/ SyncFetch
    \/ SyncReturn

Spec == InitSync /\ [][Next]_vars

\* Fair scheduling: a goroutine that can take a step takes it in the end (the
\* workers, the goroutine that closes the channel, and Sync, whose drain loop
\* keeps receiving while a worker is at a send).
Fairness ==
    /\ \A i \in 1..Max(MaxCPU, MaxFairCPU) :
           /\ WF_vars(i \in DOMAIN workers /\ WorkerOpen(i))
           /\ WF_vars(i \in DOMAIN workers /\ WorkerScan(i))
           /\ WF_vars(i \in DOMAIN workers /\ SyncReceive(i))
    /\ WF_vars(CloseChannel)
    /\ WF_vars(SyncPlan)

\* Sync as in InitSync, for the files, block sizes and NumCPU of SpecFair.
InitFair ==
    /\ \E bs \in 1..MaxFairBlockSize, r \in SeqsUpTo(Byte, MaxFairSize) :
           /\ zsync = [BlockSize |-> bs, RemoteFileSize |-> Len(r),
                       ChecksumsIndex |-> NewChecksumIndex(bs, r)]
           /\ remote = r
    /\ localFile \in SeqsUpTo(Byte, MaxFairSize)
    /\ numCPU \in 1..MaxFairCPU
    /\ pc = "start"
    /\ workers = <<>>
    /\ wg = 0
    /\ chanClosed = FALSE
    /\ chunksMap = NewFileChunksMapper
    /\ output = <<>>
    /\ missingChunks = <<>>
    /\ fetchIdx = 1
    /\ h = NewHttpFileSource(0)
    /\ minGap = 0
    /\ history = NoHistory

SpecFair == InitFair /\ [][Next]_vars /\ Fairness

(***************************************************************************)
(* The chunks mapper on its own: the specification SpecMapper.  Chunks are *)
(* added as the scanner makes them (createChunks), for any block of the    *)
(* remote file and any source offset, in any order and number; the plan is *)
(* made with minGap = 64 * BlockSize, as Sync does, or with a small one.   *)
(***************************************************************************)
InitMapper ==
    /\ \E bs \in 1..MaxBlockSize, size \in 0..MaxTargetSize :
           /\ zsync = [BlockSize |-> bs, RemoteFileSize |-> size]
           /\ minGap \in (1..MaxGap) \cup {bs * MinGapBlocks}
    /\ remote = <<>>
    /\ localFile = <<>>
    /\ numCPU = 1
    /\ pc = "mapper"
    /\ workers = <<>>
    /\ wg = 0
    /\ chanClosed = FALSE
    /\ chunksMap = NewFileChunksMapper
    /\ output = <<>>
    /\ missingChunks = <<>>
    /\ fetchIdx = 1
    /\ h = NewHttpFileSource(0)
    /\ history = [last |-> <<>>, missing |-> <<>>, replaced |-> FALSE]

\* chunkMapper.Add(chunk) for a chunk of the scanner; history.last remembers the
\* chunk added last for each target offset.
MapperAdd ==
    /\ pc = "mapper"
    /\ \E k \in 0..(NumBlocks(BlockSize, RemoteFileSize) - 1), s \in 0..MaxSourceOffset :
        LET chunk == createChunks(BlockSize, RemoteFileSize, <<[ChunkOffset |-> k]>>, s)[1]
        IN  /\ chunksMap' = Add(chunksMap, chunk)
            /\ history' = [history EXCEPT
                              !.last = [t \in DOMAIN history.last \cup {chunk.TargetOffset} |->
                                           IF t = chunk.TargetOffset THEN chunk
                                           ELSE history.last[t]],
                              !.replaced = @ \/ (chunk.TargetOffset \in DOMAIN history.last
                                                  /\ history.last[chunk.TargetOffset] # chunk)]
    /\ UNCHANGED <<zsync, remote, localFile, numCPU, pc, workers, wg, chanClosed, output,
                   missingChunks, fetchIdx, h, minGap>>

\* missingChunks := OptimizeChunks(GetMissingChunks(), minGap)
MapperPlan ==
    /\ pc = "mapper"
    /\ pc' = "planned"
    /\ missingChunks' = OptimizeChunks(GetMissingChunks(chunksMap, RemoteFileSize), minGap)
    /\ history' = [history EXCEPT !.missing = GetMissingChunks(chunksMap, RemoteFileSize)]
    /\ UNCHANGED <<zsync, remote, localFile, numCPU, workers, wg, chanClosed, chunksMap,
                   output, fetchIdx, h, minGap>>

NextMapper == MapperAdd \/ MapperPlan

SpecMapper == InitMapper /\ [][NextMapper]_vars

(***************************************************************************)
(* OptimizeChunks on its own: the specification SpecOptimize.  The input   *)
(* is any ascending list of disjoint fetch chunks inside [0, MaxListEnd).  *)
(***************************************************************************)
\* The ascending lists of disjoint chunks of size >= 1 inside [from, to).
RECURSIVE ChunkLists(_, _)
ChunkLists(from, to) ==
    {<<>>} \cup UNION {UNION {{<<ChunkInfo(size, b, b)>> \o rest : rest \in ChunkLists(b + size, to)}
                              : size \in 1..(to - b)}
                       : b \in from..(to - 1)}

InitOptimize ==
    /\ missingChunks \in ChunkLists(0, MaxListEnd)
    /\ minGap \in 1..(MaxGap + 1)
    /\ zsync = [BlockSize |-> 1, RemoteFileSize |-> MaxListEnd]
    /\ remote = <<>>
    /\ localFile = <<>>
    /\ numCPU = 1
    /\ pc = "optimize"
    /\ workers = <<>>
    /\ wg = 0
    /\ chanClosed = FALSE
    /\ chunksMap = NewFileChunksMapper
    /\ output = <<>>
    /\ fetchIdx = 1
    /\ h = NewHttpFileSource(0)
    /\ history = [input |-> <<>>]

\* missingChunks = chunkMapper.OptimizeChunks(missingChunks, minGap)
OptimizeStep ==
    /\ pc = "optimize"
    /\ pc' = "optimized"
    /\ missingChunks' = OptimizeChunks(missingChunks, minGap)
    /\ history' = [input |-> missingChunks]
    /\ UNCHANGED <<zsync, remote, localFile, numCPU, workers, wg, chanClosed, chunksMap,
                   output, fetchIdx, h, minGap>>

NextOptimize == OptimizeStep

SpecOptimize == InitOptimize /\ [][NextOptimize]_vars

(***************************************************************************)
(* The range source on its own: the specification SpecSource.  A caller    *)
(* makes any sequence of Seek, Request and Read calls on an HttpFileSource *)
(* for the remote file; history remembers the last call: the logical       *)
(* offset before it, the bytes a Read returned and the error; h.gets holds  *)
(* the GETs of the last Request or Read only.                              *)
(***************************************************************************)
InitSource ==
    /\ remote \in SeqsUpTo(Byte, MaxSourceSize)
    /\ zsync = [BlockSize |-> 1, RemoteFileSize |-> Len(remote)]
    /\ h = NewHttpFileSource(Len(remote))
    /\ localFile = <<>>
    /\ numCPU = 1
    /\ pc = "source"
    /\ workers = <<>>
    /\ wg = 0
    /\ chanClosed = FALSE
    /\ chunksMap = NewFileChunksMapper
    /\ output = <<>>
    /\ missingChunks = <<>>
    /\ fetchIdx = 1
    /\ minGap = 0
    /\ history = [op |-> "", before |-> 0, size |-> 0, data |-> <<>>, err |-> "nil",
                  seeks |-> 0, requests |-> 0]

\* h.Seek(offset, whence) to a position of the file.
SourceSeek ==
    /\ pc = "source"
    /\ \E whence \in 0..2, offset \in (-MaxSourceSize)..MaxSourceSize :
        LET r == Seek(h, offset, whence)
        IN  /\ r.h.Offset \in 0..Len(remote)
            /\ h' = r.h
            /\ history' = [history EXCEPT !.op = "Seek", !.before = h.Offset, !.size = 0,
                                          !.data = <<>>, !.err = r.err,
                                          !.seeks = IF Len(h.readerCache) # 0 /\ r.h.Offset # h.Offset
                                                    THEN 1 ELSE @]
    /\ UNCHANGED <<zsync, remote, localFile, numCPU, pc, workers, wg, chanClosed, chunksMap,
                   output, missingChunks, fetchIdx, minGap>>

\* h.Request(size), answered by any response of the server.
SourceRequest ==
    /\ pc = "source"
    /\ \E size \in 1..MaxReadLen, resp \in Responses :
        LET r == Request([h EXCEPT !.gets = <<>>], size, remote, resp)
        IN  /\ Len(h.readerCache) + size <= MaxCacheLen
            /\ h' = r.h
            /\ history' = [history EXCEPT !.op = "Request", !.before = h.Offset, !.size = size,
                                          !.data = <<>>, !.err = r.err,
                                          !.requests = IF Len(h.readerCache) # 0 THEN 1 ELSE @]
    /\ UNCHANGED <<zsync, remote, localFile, numCPU, pc, workers, wg, chanClosed, chunksMap,
                   output, missingChunks, fetchIdx, minGap>>

\* h.Read(b) with len(b) = n; a Request it makes is answered by any response.
SourceRead ==
    /\ pc = "source"
    /\ \E n \in 1..MaxReadLen, resp \in Responses :
        LET r == Read([h EXCEPT !.gets = <<>>], n, remote, resp)
        IN  /\ h' = r.h
            /\ history' = [history EXCEPT !.op = "Read", !.before = h.Offset, !.size = n,
                                          !.data = r.data, !.err = r.err]
    /\ UNCHANGED <<zsync, remote, localFile, numCPU, pc, workers, wg, chanClosed, chunksMap,
                   output, missingChunks, fetchIdx, minGap>>

NextSource == SourceSeek \/ SourceRequest \/ SourceRead

SpecSource == InitSource /\ [][NextSource]_vars

(***************************************************************************)
(* The rolling checksum on its own: the specification SpecRolling.  One    *)
(* worker runs the loop of searchReusableChunksAsync over a file of which  *)
(* no window matches: it fills the window once and then slides byte by     *)
(* byte.  The file repeats a short pattern, so that windows long enough    *)
(* for the sums to pass 2^16 can be checked.                               *)
(***************************************************************************)
\* The file of n bytes that repeats pattern p.
Repeat(p, n) == [i \in 1..n |-> p[((i - 1) % Len(p)) + 1]]

InitRolling ==
    /\ \E bs \in 1..MaxWindow, p \in SeqsUpTo(RollBytes, MaxPattern) \ {<<>>},
          extra \in 0..MaxSlides :
           /\ zsync = [BlockSize |-> bs, RemoteFileSize |-> 0]
           /\ localFile = Repeat(p, bs + extra)
           /\ workers = <<[pc |-> "scan", begin |-> 0, end |-> bs + extra, off |-> 0,
                           nextStep |-> bs, pos |-> 0, buf |-> NewHashedBuffer,
                           pending |-> <<>>, sent |-> <<>>, err |-> "nil"]>>
    /\ remote = <<>>
    /\ numCPU = 1
    /\ pc = "rolling"
    /\ wg = 1
    /\ chanClosed = FALSE
    /\ chunksMap = NewFileChunksMapper
    /\ output = <<>>
    /\ missingChunks = <<>>
    /\ fetchIdx = 1
    /\ h = NewHttpFileSource(0)
    /\ minGap = 0
    /\ history = [filled |-> FALSE, slides |-> 0]

\* An iteration of the loop of searchReusableChunksAsync that finds no match:
\* consumeBytes(nextStep), then nextStep = 1.  The first iteration fills the
\* window, each later one slides it by one byte.
RollingStep ==
    LET w == workers[1]
        r == consumeBytes(BlockSize, w.buf, localFile, w.pos, w.nextStep)
    IN  /\ pc = "rolling"
        /\ r.err = "nil"
        /\ Len(w.buf.win) = 0 \/ w.pos < Len(localFile)
        /\ workers' = [workers EXCEPT ![1].buf = r.buf, ![1].pos = r.pos, ![1].nextStep = 1,
                                      ![1].off = IF history.filled THEN w.off + 1 ELSE w.off]
        /\ history' = [filled |-> TRUE,
                       slides |-> IF history.filled THEN history.slides + 1 ELSE 0]
        /\ UNCHANGED <<zsync, remote, localFile, numCPU, pc, wg, chanClosed, chunksMap,
                       output, missingChunks, fetchIdx, h, minGap>>

NextRolling == RollingStep

SpecRolling == InitRolling /\ [][NextRolling]_vars

(***************************************************************************)
(* The claims.                                                             *)
(***************************************************************************)

\* C1 (Reconstruction): when Sync has returned nil, every byte position p of
\* [0, RemoteFileSize) of the output holds the remote file's byte at p.  The
\* index of the model describes the remote file faithfully and a response
\* "ok" carries the true bytes, for every local file, block size and NumCPU.
C1_Reconstruction ==
    pc = "ok" =>
        \A p \in 0..(RemoteFileSize - 1) : p \in DOMAIN output /\ output[p] = remote[p + 1]

\* Sync has returned nil after it reused a chunk that needed the zero tail (the
\* local file ends inside the matched window) and fetched another part.
C1_Witness ==
    /\ pc = "ok"
    /\ missingChunks # <<>>
    /\ \E t \in DOMAIN chunksMap :
           chunksMap[t].SourceOffset + chunksMap[t].Size > Len(localFile)

\* The byte positions of the target that the chunks of a list cover.
Covered(chunkList) ==
    UNION {(chunkList[i].TargetOffset)..(chunkList[i].TargetOffset + chunkList[i].Size - 1)
           : i \in DOMAIN chunkList}

StrictlyAscending(chunkList) ==
    \A i \in 1..(Len(chunkList) - 1) : chunkList[i].TargetOffset < chunkList[i + 1].TargetOffset

\* Two chunks share a byte of the target.
Overlap(c, d) ==
    /\ c.TargetOffset < d.TargetOffset + d.Size
    /\ d.TargetOffset < c.TargetOffset + c.Size

PairwiseDisjoint(chunkList) ==
    \A i, j \in DOMAIN chunkList : i < j => ~Overlap(chunkList[i], chunkList[j])

\* Sync has made its plan (and has not returned an error).
Planned == pc \in {"fetch", "ok"}

\* C2 (Coverage): for any chunks added to the mapper as the scanner makes them
\* and any remote size R, the target ranges of the reuse chunks
\* (GetMappedChunks) and of the fetch chunks (GetMissingChunks, and also
\* OptimizeChunks of them) cover [0, R) exactly: no byte of [0, R) is left out
\* and no chunk reaches outside [0, R).
C2_Coverage ==
    LET all == 0..(RemoteFileSize - 1)
        reuse == Covered(GetMappedChunks(chunksMap))
        missing == GetMissingChunks(chunksMap, RemoteFileSize)
    IN  /\ reuse \cup Covered(missing) = all
        /\ reuse \cup Covered(OptimizeChunks(missing, minGap)) = all
        /\ pc = "planned" =>
               /\ reuse \cup Covered(history.missing) = all
               /\ reuse \cup Covered(missingChunks) = all

\* A plan with reuse chunks whose fetch chunks were coalesced into fewer.
C2_Witness ==
    /\ pc = "planned"
    /\ DOMAIN chunksMap # {}
    /\ Len(history.missing) >= 2
    /\ Len(missingChunks) < Len(history.missing)

\* C3 (Disjointness), as claimed: in the plan that Sync executes (the reuse
\* chunks of the mapper and the fetch chunks of
\* OptimizeChunks(GetMissingChunks(), 64 * BlockSize)) no two chunks overlap.
C3_Disjointness ==
    Planned => PairwiseDisjoint(GetMappedChunks(chunksMap) \o missingChunks)

\* C3, amended: in the plan that Sync executes no two reuse chunks overlap, no
\* two fetch chunks overlap, and the fetch chunks of GetMissingChunks overlap no
\* reuse chunk; a fetch chunk of OptimizeChunks may overlap a reuse chunk, and
\* then it contains the whole of it (the gaps on both sides were coalesced).
C3_DisjointByKind ==
    LET reuse == GetMappedChunks(chunksMap)
        missing == GetMissingChunks(chunksMap, RemoteFileSize)
    IN  Planned =>
            /\ PairwiseDisjoint(reuse)
            /\ PairwiseDisjoint(missingChunks)
            /\ PairwiseDisjoint(missing)
            /\ \A i \in DOMAIN reuse, j \in DOMAIN missing : ~Overlap(reuse[i], missing[j])
            /\ \A i \in DOMAIN reuse, j \in DOMAIN missingChunks :
                   Overlap(reuse[i], missingChunks[j]) =>
                       /\ missingChunks[j].TargetOffset <= reuse[i].TargetOffset
                       /\ reuse[i].TargetOffset + reuse[i].Size
                              <= missingChunks[j].TargetOffset + missingChunks[j].Size

\* Sync has returned nil with a fetch chunk that was coalesced across a reuse chunk.
C3_Witness ==
    /\ pc = "ok"
    /\ \E t \in DOMAIN chunksMap, j \in DOMAIN missingChunks :
           Overlap(chunksMap[t], missingChunks[j])

\* C4 (Identity), as claimed: if the local file equals the remote file byte for
\* byte, then for every block size, remote size and NumCPU the plan holds no
\* fetch chunk (GetMissingChunks is empty).  No worker failed to open the file.
C4_Identity ==
    (Planned /\ localFile = remote /\ \A i \in DOMAIN workers : workers[i].err = "nil")
        => GetMissingChunks(chunksMap, RemoteFileSize) = <<>>

\* The blocks of the remote file whose zero-padded content is the window of the
\* local file at offset s (zero-filled past the end of the local file).
MatchingBlocks(s) ==
    {k \in 0..(NumBlocks(BlockSize, RemoteFileSize) - 1) :
        \A j \in 1..BlockSize :
            (IF s + j <= Len(localFile) THEN localFile[s + j] ELSE 0)
                = (IF k * BlockSize + j <= Len(remote) THEN remote[k * BlockSize + j] ELSE 0)}

\* C5 (Disjoint-local): if no window of the local file matches a block of the
\* remote file and the remote size R is greater than 0, no chunk is reused and
\* the plan is exactly one fetch chunk with target range [0, R), the same
\* before and after coalescing.
C5_DisjointLocal ==
    (Planned /\ RemoteFileSize > 0 /\ \A s \in 0..(Len(localFile) - 1) : MatchingBlocks(s) = {})
        => /\ DOMAIN chunksMap = {}
           /\ missingChunks = <<ChunkInfo(RemoteFileSize, 0, 0)>>
           /\ GetMissingChunks(chunksMap, RemoteFileSize) = missingChunks

\* Sync has returned nil for a local file of at least one block of which no
\* window matches.
C5_Witness ==
    /\ pc = "ok"
    /\ RemoteFileSize > 0
    /\ Len(localFile) >= BlockSize
    /\ \A s \in 0..(Len(localFile) - 1) : MatchingBlocks(s) = {}
    /\ DOMAIN output = 0..(RemoteFileSize - 1)

C7_CoalescingBound ==
    pc = "optimized" =>
        \A i \in 1..(Len(missingChunks) - 1) :
            missingChunks[i + 1].SourceOffset
                - (missingChunks[i].SourceOffset + missingChunks[i].Size) >= minGap

\* OptimizeChunks merged some chunks and kept several.
C7_Witness ==
    /\ pc = "optimized"
    /\ Len(missingChunks) >= 2
    /\ Len(missingChunks) < Len(history.input)

\* C8 (Duplicated blocks): when the window at a local offset s matches k blocks
\* of the remote file, the worker emits exactly k records before it advances,
\* one per matched block, each with SourceOffset = s (w.sent holds what the
\* worker has sent for its last window, w.pending what it has yet to send); and
\* once Sync has planned, every target offset of those records is mapped as a
\* reuse chunk.
C8_DuplicatedBlocks ==
    \A i \in DOMAIN workers :
        /\ (workers[i].pc = "send" \/ (workers[i].pc = "scan" /\ workers[i].sent # <<>>)) =>
            LET w == workers[i]
                burst == w.sent \o w.pending
                s == IF w.pc = "send" THEN w.off ELSE w.off - w.nextStep
                targets == {k * BlockSize : k \in MatchingBlocks(s)}
            IN  /\ Len(burst) = Cardinality(targets)
                /\ {burst[j].TargetOffset : j \in DOMAIN burst} = targets
                /\ \A j \in DOMAIN burst : burst[j].SourceOffset = s
        /\ workers[i].pc # "send" => workers[i].pending = <<>>
        /\ Planned => \A j \in DOMAIN workers[i].sent :
                          workers[i].sent[j].TargetOffset \in DOMAIN chunksMap

\* Sync has returned nil and a worker's last window matched two blocks: both
\* records were sent and both targets are mapped from that source offset.
C8_Witness ==
    /\ pc = "ok"
    /\ \E i \in DOMAIN workers :
           /\ Len(workers[i].sent) >= 2
           /\ \A j \in DOMAIN workers[i].sent :
                  /\ workers[i].sent[j].TargetOffset \in DOMAIN chunksMap
                  /\ chunksMap[workers[i].sent[j].TargetOffset].SourceOffset
                         = workers[i].sent[1].SourceOffset

\* The errors a failed range request returns.
RequestErrors ==
    {"Error executing request", "URL not found", "ranged request not supported",
     "response from server was GZiped", "Range size mismatch"}

\* C9, as claimed: whenever Sync returns an error, no chunk of the plan has been
\* written to the output.
C9_NoPartialOutput == pc = "err" => DOMAIN output = {}

\* C9, amended: when Sync returns the error of a failed range request, the reuse
\* chunks and the fetch chunks before the failing one have been written to the
\* output, and nothing of the failing chunk or of a later one has.
C9_PartialOutput ==
    (pc = "err" /\ history.err \in RequestErrors) =>
        /\ fetchIdx <= Len(missingChunks)
        /\ DOMAIN output = Covered(GetMappedChunks(chunksMap))
                               \cup Covered(SubSeq(missingChunks, 1, fetchIdx - 1))

\* Sync returned the error of a range request after it had written reuse chunks.
C9_Witness ==
    /\ pc = "err"
    /\ history.err \in RequestErrors
    /\ DOMAIN output # {}

\* C10 (Worker count), as claimed: for every local file size, block size and
\* NumCPU >= 1, SearchReusableChunks starts
\* W = min(NumCPU, floor(local_size / block_size)) workers, at least 1, and
\* returns a channel without failing (the file could be stat'ed).
C10_WorkerCount ==
    (pc # "start" /\ history.err # "stat") =>
        /\ pc # "panic"
        /\ Len(workers) = Max(1, Min(numCPU, Len(localFile) \div BlockSize))

\* C11 (Range read), as claimed: after any sequence of Seek, Request and Read
\* calls, a Read that succeeds with n bytes returns the remote file's bytes
\* [o, o + n), o the logical offset just before the Read, and leaves the
\* logical offset at o + n.
C11_RangeRead ==
    (pc = "source" /\ history.op = "Read" /\ history.err = "nil") =>
        /\ history.data = Slice(remote, history.before, history.before + Len(history.data))
        /\ h.Offset = history.before + Len(history.data)

\* C12 (Range request): in Sync every fetch chunk tried causes exactly one GET,
\* for the inclusive byte range SourceOffset..SourceOffset + Size - 1 of that
\* chunk, and none is retried (h.gets lists the GETs sent, history.requests the
\* chunks tried with the response the server gave).  Request returns nil, so
\* that Sync goes on to the next chunk, only for a 206 response without gzip
\* coding whose body has exactly Size bytes; a 404 makes Sync return 'URL not
\* found', another status that is not 206 'ranged request not supported', a
\* body of another length 'Range size mismatch', and a gzip coding or a
\* transport error an error as well.
C12_RangeRequest ==
    LET asked == history.requests
        last == asked[Len(asked)]
    IN  /\ Len(h.gets) = Len(asked)
        /\ \A j \in DOMAIN asked :
               /\ asked[j].chunk = missingChunks[j]
               /\ h.gets[j] = <<asked[j].chunk.SourceOffset,
                                asked[j].chunk.SourceOffset + asked[j].chunk.Size - 1>>
        /\ pc \in {"fetch", "ok"} =>
               /\ Len(asked) = fetchIdx - 1
               /\ \A j \in DOMAIN asked : asked[j].resp = "ok"
        /\ pc = "ok" => Len(asked) = Len(missingChunks)
        /\ (pc = "err" /\ asked # <<>>) =>
               /\ Len(asked) = fetchIdx
               /\ \A j \in 1..(Len(asked) - 1) : asked[j].resp = "ok"
               /\ last.resp = "404" => history.err = "URL not found"
               /\ last.resp = "200" => history.err = "ranged request not supported"
               /\ last.resp = "short" => history.err = "Range size mismatch"
               /\ last.resp \in {"gzip", "transport"} => history.err \in RequestErrors
               /\ last.resp = "ok" => history.err = "write"

\* Sync returned 'URL not found' for the one GET it sent, for a fetch chunk that
\* begins after a reuse chunk.
C12_Witness ==
    /\ pc = "err"
    /\ history.err = "URL not found"
    /\ Len(h.gets) = 1
    /\ h.gets[1][1] > 0
    /\ h.gets[1][2] = RemoteFileSize - 1

\* The sum b of a window without the reduction mod 2^16.
RECURSIVE PlainB(_)
PlainB(w) == IF w = <<>> THEN 0 ELSE Len(w) * Head(w) + PlainB(Tail(w))

\* C13 (Rolling-sum agreement): for a file of at least block_size bytes, after
\* the window was filled once and slid N times by one byte with the incremental
\* update, the weak checksum of the buffer ((b << 16) | a) equals the weak
\* checksum computed from scratch over the bytes [N, N + block_size) of the
\* file, with a and b reduced mod 2^16.
C13_RollingSum ==
    (pc = "rolling" /\ history.filled) =>
        LET N == history.slides
            window == Slice(localFile, N, N + BlockSize)
        IN  /\ Len(window) = BlockSize
            /\ RollingSum(workers[1].buf) = WeakOf(window)
            /\ workers[1].buf.a = SumA(window)
            /\ workers[1].buf.b = SumB(window)

\* The window was slid several times, and with the last slide its sum b came
\* down from above 2^16 to below it: the update went through a negative value
\* that the reduction mod 2^16 brought back.
C13_Witness ==
    /\ pc = "rolling"
    /\ history.filled
    /\ history.slides >= 2
    /\ PlainB(workers[1].buf.win) < Mod16
    /\ PlainB(Slice(localFile, history.slides - 1, history.slides - 1 + BlockSize)) >= Mod16
    /\ workers[1].buf.b = PlainB(workers[1].buf.win)

\* The barrier in a state: the counter of the wait group is the number of
\* workers that have not returned, and once the channel is closed every worker
\* has returned with nothing left to send, so that none is at a send.
C14_Barrier ==
    /\ wg = Cardinality({i \in DOMAIN workers : workers[i].pc # "done"})
    /\ chanClosed =>
           /\ workers # <<>>
           /\ \A i \in DOMAIN workers : workers[i].pc = "done" /\ workers[i].pending = <<>>
    /\ \A i \in DOMAIN workers : workers[i].pc = "send" => ~chanClosed
    /\ Planned => chanClosed

\* C14 (Completion barrier): in every interleaving of the scan workers and the
\* consumer the channel is closed only after every scan worker has returned,
\* so no worker is ever at a send on a closed channel, and the drain loop of
\* the consumer ends only then, when it has received every record a worker had
\* to send; a closed channel stays closed (it is closed once), and a worker
\* sends its records in order, each to the consumer, none dropped.
C14_CompletionBarrier ==
    /\ []C14_Barrier
    /\ [][/\ chanClosed => chanClosed'
          /\ \A i \in DOMAIN workers :
                 (workers[i].pc = "send" /\ workers'[i] # workers[i]) =>
                     /\ pc = "drain"
                     /\ workers'[i].sent = Append(workers[i].sent, Head(workers[i].pending))
                     /\ workers'[i].pending = Tail(workers[i].pending)]_vars

\* The channel is closed after two workers returned, one of which had sent two
\* records for its last window, and Sync has planned.
C14_Witness ==
    /\ chanClosed
    /\ Planned
    /\ Len(workers) >= 2
    /\ \E i \in DOMAIN workers : Len(workers[i].sent) >= 2

\* Every scan worker has returned and the channel is closed.
ScanOver ==
    /\ chanClosed
    /\ wg = 0
    /\ \A i \in DOMAIN workers : workers[i].pc = "done"

\* C15 (Scan termination): under fair scheduling, once Sync is in its drain
\* loop, either the consumer stops receiving because a WriteChunk failed (Sync
\* returns the error), or every scan worker returns and decrements the wait
\* group, a worker that could not open the file or met the end of its input
\* included, the channel is closed and the drain loop ends (Sync goes on to
\* plan).
C15_ScanTermination ==
    (pc = "drain") ~> (pc = "err" \/ (ScanOver /\ pc = "fetch"))

\* The drain loop has ended on the closed channel; one worker had failed to
\* open the file and another had sent a record.
C15_Witness ==
    /\ ScanOver
    /\ pc = "fetch"
    /\ \E i \in DOMAIN workers : workers[i].err = "open"
    /\ \E i \in DOMAIN workers : workers[i].sent # <<>>

\* The byte ranges of the workers are contiguous and pairwise disjoint: the
\* first begins at 0 and each begins where the one before it ends.
RangesContiguous ==
    /\ workers[1].begin = 0
    /\ \A i \in DOMAIN workers : workers[i].begin <= workers[i].end
    /\ \A i \in 1..(Len(workers) - 1) : workers[i].end = workers[i + 1].begin

\* C16 (Scan partition), as claimed: for every local size, block size and
\* NumCPU, the byte ranges [begin_i, end_i) handed to the W scan workers are
\* contiguous and pairwise disjoint and their union is [0, local_size): every
\* local offset lies in the range of exactly one worker.
C16_ScanPartition ==
    workers # <<>> =>
        /\ RangesContiguous
        /\ workers[Len(workers)].end = Len(localFile)
        /\ \A o \in 0..(Len(localFile) - 1) :
               Cardinality({i \in DOMAIN workers :
                               workers[i].begin <= o /\ o < workers[i].end}) = 1

\* Chunk d lies inside chunk c (by their offsets in the remote file).
Inside(d, c) ==
    /\ c.SourceOffset <= d.SourceOffset
    /\ d.SourceOffset + d.Size <= c.SourceOffset + c.Size

\* C17 (Coalescing step): for an ascending list of disjoint fetch chunks (the
\* input) and the list OptimizeChunks returns for it (the output): every input
\* chunk lies inside exactly one output chunk; two consecutive input chunks lie
\* in the same output chunk exactly when next.begin - current.end < minGap (a
\* gap equal to minGap is not merged); an output chunk begins at the begin of
\* the first input chunk inside it and ends at the end of the last; and with
\* block size 16 (minGap 1024) the chunks [0,10) and [200,300) become [0,300),
\* while with minGap 190 they stay apart.
C17_CoalescingStep ==
    /\ OptimizeChunks(<<ChunkInfo(10, 0, 0), ChunkInfo(100, 200, 200)>>, 16 * MinGapBlocks)
           = <<ChunkInfo(300, 0, 0)>>
    /\ OptimizeChunks(<<ChunkInfo(10, 0, 0), ChunkInfo(100, 200, 200)>>, 190)
           = <<ChunkInfo(10, 0, 0), ChunkInfo(100, 200, 200)>>
    /\ pc = "optimized" =>
        LET in == history.input
            out == missingChunks
            home(i) == {j \in DOMAIN out : Inside(in[i], out[j])}
        IN  /\ \A i \in DOMAIN in : Cardinality(home(i)) = 1
            /\ \A i \in 1..(Len(in) - 1) :
                   (home(i) = home(i + 1))
                       <=> (in[i + 1].SourceOffset - (in[i].SourceOffset + in[i].Size) < minGap)
            /\ \A j \in DOMAIN out :
                   LET members == {i \in DOMAIN in : Inside(in[i], out[j])}
                       first == CHOOSE i \in members : \A k \in members : i <= k
                       last == CHOOSE i \in members : \A k \in members : k <= i
                   IN  /\ members # {}
                       /\ out[j].SourceOffset = in[first].SourceOffset
                       /\ out[j].TargetOffset = in[first].TargetOffset
                       /\ out[j].SourceOffset + out[j].Size
                              = in[last].SourceOffset + in[last].Size

\* OptimizeChunks merged two chunks whose gap is below minGap and kept apart a
\* third whose gap is exactly minGap.
C17_Witness ==
    /\ pc = "optimized"
    /\ Len(history.input) = 3
    /\ Len(missingChunks) = 2
    /\ missingChunks[1].Size > history.input[1].Size
    /\ missingChunks[2].SourceOffset
           - (missingChunks[1].SourceOffset + missingChunks[1].Size) = minGap

\* What a WriteChunk of chunk from a source with the bytes file has done to the
\* output in a step: the target range holds the bytes of the source from
\* SourceOffset on, followed by zeros where the source ended before Size bytes,
\* exactly Size bytes in all, and every other byte written before is as it was.
Written(chunk, file) ==
    LET T == chunk.TargetOffset
        got == Slice(file, chunk.SourceOffset, chunk.SourceOffset + chunk.Size)
        range == T..(T + chunk.Size - 1)
    IN  /\ DOMAIN output' = DOMAIN output \cup range
        /\ \A p \in range :
               output'[p] = IF p - T + 1 <= Len(got) THEN got[p - T + 1] ELSE 0
        /\ \A p \in DOMAIN output \ range : output'[p] = output[p]

\* C18 (Zero-tail rule): every WriteChunk call of Sync that returns nil, for a
\* reuse chunk read from the local file (the drain loop stays in its loop) and
\* for a fetch chunk read from the range source (the fetch loop moves on), has
\* written exactly chunk.Size bytes to [TargetOffset, TargetOffset + Size): the
\* bytes of the source from SourceOffset on and, when the source ends after
\* n < Size bytes, Size - n zero bytes after them; the bytes of the target
\* outside that range are unchanged.
C18_ZeroTail ==
    [][/\ \A i \in DOMAIN workers :
              (pc = "drain" /\ pc' = "drain" /\ workers[i].pc = "send"
                   /\ workers'[i] # workers[i])
                  => Written(Head(workers[i].pending), localFile)
       /\ (pc = "fetch" /\ fetchIdx' = fetchIdx + 1)
              => Written(missingChunks[fetchIdx], remote)
       /\ output' # output =>
              \/ pc = "drain" /\ pc' = "drain"
              \/ pc = "fetch" /\ fetchIdx' = fetchIdx + 1]_vars

\* Two reuse chunks are written; one of them was read from the last byte of the
\* local file, a 1, and its second byte is a zero that WriteChunk added.
C18_Witness ==
    /\ Cardinality(DOMAIN chunksMap) >= 2
    /\ \E t \in DOMAIN chunksMap :
           /\ chunksMap[t].Size = 2
           /\ chunksMap[t].SourceOffset = Len(localFile) - 1
           /\ localFile[Len(localFile)] = 1
           /\ t \in DOMAIN output /\ output[t] = 1
           /\ (t + 1) \in DOMAIN output /\ output[t + 1] = 0

\* The shape of a match record c for the control of the remote file.
RecordShape(c) ==
    LET k == c.TargetOffset \div BlockSize
        last == NumBlocks(BlockSize, RemoteFileSize) - 1
    IN  /\ c.TargetOffset = k * BlockSize
        /\ k \in 0..last
        /\ c.Size = IF k = last THEN RemoteFileSize - c.TargetOffset ELSE BlockSize
        /\ 0 < c.Size /\ c.Size <= BlockSize
        /\ c.TargetOffset + c.Size <= RemoteFileSize

\* C19 (Match-record shape): every record a scan worker emits (what it has
\* sent or has yet to send for its window, and what Sync has received and
\* mapped) has target_offset = block_index * block_size for a block of the
\* control and size = block_size, except that a record for the final block has
\* size = remote_size - target_offset; so 0 < size <= block_size and
\* target_offset + size <= remote_size.  Its source offset is the offset of
\* the worker's window, inside the worker's range.
C19_RecordShape ==
    /\ \A i \in DOMAIN workers :
           \A c \in Range(workers[i].sent \o workers[i].pending) :
               /\ RecordShape(c)
               /\ workers[i].begin <= c.SourceOffset /\ c.SourceOffset < workers[i].end
    /\ \A t \in DOMAIN chunksMap : RecordShape(chunksMap[t]) /\ chunksMap[t].TargetOffset = t

\* Sync has received a whole block and the final block, cut to less than a
\* block.
C19_Witness ==
    /\ \E t \in DOMAIN chunksMap : chunksMap[t].Size = BlockSize
    /\ \E t \in DOMAIN chunksMap :
           /\ chunksMap[t].Size < BlockSize
           /\ t + chunksMap[t].Size = RemoteFileSize

\* C20 (No stranded workers), as claimed: under fair scheduling, after Sync has
\* returned, with nil or with an error, having started its scan workers, every
\* worker eventually returns and the channel is eventually closed: no worker
\* stays blocked forever on a send.
C20_NoStrandedWorkers ==
    (pc \in {"ok", "err"} /\ workers # <<>>) ~> ScanOver

\* After Sync has returned nil the scan is over: every worker has returned and
\* the channel is closed.
C20_ReturnedNil == pc = "ok" => ScanOver

=============================================================================
